---- MODULE Spec2Model ----
(***************************************************************************)
(* A model of apple_report_downloader.py: the Configurator (defaults,     *)
(* JSON file, environment, arguments), the AppleAPI client with its       *)
(* cached JWT issuer, the OuptutDataLayer report writer and the command   *)
(* line entry point.                                                      *)
(*                                                                         *)
(* Python values are tagged records so that a str and an int never        *)
(* compare equal: PyStr("600") is not PyInt(600).                             *)
(***************************************************************************)
EXTENDS Integers, Sequences, FiniteSets, TLC

VARIABLES
    pc,            \* position of the running code
    args,          \* argparse namespace of the entry point
    operation_ct,  \* entry point's operation counter
    initial_args,  \* the args mapping handed to Configurator
    config_file,   \* Configurator.__config_file
    config,        \* Configurator.__config
    fileCfg,       \* what the config file held when it was read
    environ,       \* os.environ as seen by __configure_from_env
    apis,          \* the AppleAPI objects of the process, by object identity
    cur,           \* the AppleAPI object the running request belongs to
    rptg_day,      \* argument of request_in_review_report
    report_url,    \* local of request_in_review_report
    lru,           \* the lru_cache(1) store of __generate_jwt_token
    now,           \* the clock, in ticks of 1/TicksPerSec second
    expiration,    \* local of __generate_jwt_token
    private_key,   \* local of __generate_jwt_token
    token,         \* local of __send_signed_http_request
    response,      \* (status_code, headers, text) returned by the request
    handles,       \* open file objects, by the file they read
    log,           \* history: file and network events, in order
    fs,            \* the files of the working directory: name -> content
    stdout,        \* lines printed
    exit_status,   \* status passed to exit(), or NoExit
    exc,           \* the exception that ended the run, or NoExc
    issued,        \* history: the tokens the issuer returned, in order
    calls          \* history: number of requests a driver has started

vars == <<pc, args, operation_ct, initial_args, config_file, config, fileCfg,
          environ, apis, cur, rptg_day, report_url, lru, now, expiration,
          private_key, token, response, handles, log, fs, stdout,
          exit_status, exc, issued, calls>>

cliVars == <<args, operation_ct, stdout, exit_status>>
cfgVars == <<initial_args, config_file, config, fileCfg, environ>>
apiVars == <<apis, cur, rptg_day, report_url, lru, expiration, private_key,
             token, response, issued, calls>>
ioVars == <<handles, log, fs>>

(***************************************************************************)
(* Bounds of the model.                                                    *)
(***************************************************************************)
TicksPerSec == 2    \* clock resolution: time.time() is a float
MaxTime == 4        \* the clock stops advancing here (ticks)
MaxCalls == 3       \* requests a driver of the library issues
MaxNonce == 2       \* distinct ECDSA nonces a signature may draw

(***************************************************************************)
(* Python values.                                                          *)
(***************************************************************************)
PyStr(s) == [t |-> "str", s |-> s]
PyInt(n) == [t |-> "int", n |-> n]
PyFalse == [t |-> "bool", b |-> FALSE]
None == [t |-> "none"]

IsStr(v) == v.t = "str"
IsInt(v) == v.t = "int"

NoExc == [type |-> "none"]
NoExit == -1
Unset == [t |-> "unset"]

Digits == <<"0", "1", "2", "3", "4", "5", "6", "7", "8", "9">>

\* str() of a non-negative int: its decimal digits.
RECURSIVE DecStr(_)
DecStr(n) ==
    IF n < 10 THEN Digits[n + 1]
    ELSE DecStr(n \div 10) \o Digits[(n % 10) + 1]

\* What an f-string or "%s" makes of a value.
PyFormat(v) ==
    CASE v.t = "str" -> v.s
      [] v.t = "int" -> DecStr(v.n)
      [] v.t = "none" -> "None"

\* dict.update: the keys of e override those of d.
Update(d, e) ==
    [k \in DOMAIN d \cup DOMAIN e |-> IF k \in DOMAIN e THEN e[k] ELSE d[k]]

EmptyDict == [k \in {} |-> None]

(***************************************************************************)
(* Configurator.                                                           *)
(***************************************************************************)
required_items ==
    <<"api_base_url", "issuer_id", "jwt_expire_sec", "key_id", "privkey_path">>

RequiredSet == {required_items[i] : i \in 1..Len(required_items)}

\* str.upper() on the names of the required items.
Upper(item) ==
    CASE item = "api_base_url" -> "API_BASE_URL"
      [] item = "issuer_id" -> "ISSUER_ID"
      [] item = "jwt_expire_sec" -> "JWT_EXPIRE_SEC"
      [] item = "key_id" -> "KEY_ID"
      [] item = "privkey_path" -> "PRIVKEY_PATH"

Defaults ==
    [k \in {"api_base_url", "jwt_expire_sec"} |->
        IF k = "api_base_url" THEN PyStr("https://musicanalytics.apple.com")
        ELSE PyInt(1200)]

\* The inputs the model draws from.  A JSON file gives jwt_expire_sec as a
\* number; an environment variable is always a str, possibly empty; a caller
\* passes jwt_expire_sec as an int.
FileKeys == RequiredSet \cup {"out"}

FileValue(k) ==
    IF k = "jwt_expire_sec" THEN PyInt(1) ELSE PyStr("file:" \o k)

EnvValue(k) ==
    IF k = "jwt_expire_sec" THEN PyStr("2") ELSE PyStr("env:" \o k)

ArgValue(k) ==
    IF k = "jwt_expire_sec" THEN PyInt(3) ELSE PyStr("arg:" \o k)

\* What a config path can hold when it is read: text that is not JSON, or a
\* JSON object with any subset of the keys.
FileContents ==
    {[kind |-> "badjson"]} \cup
    {[kind |-> "json", obj |-> [k \in S |-> FileValue(k)]] : S \in SUBSET FileKeys}

\* The environment in which the variables of S are set, the one of e to "".
EnvOf(S, e) ==
    [n \in {Upper(k) : k \in S} |->
        LET k == CHOOSE x \in S : Upper(x) = n
        IN  IF k = e THEN PyStr("") ELSE EnvValue(k)]

\* Environments: any subset of the upper-cased names is set, and at most one of
\* the set variables is set to the empty string.
Environments ==
    {EnvOf(S, e) : S \in SUBSET RequiredSet, e \in RequiredSet \cup {"-"}}

Overrides == {[k \in S |-> ArgValue(k)] : S \in SUBSET RequiredSet}

\* An uncaught exception ends the running code.
Raise(type, msg) ==
    /\ pc' = "raised"
    /\ exc' = [type |-> type, msg |-> msg]

Event(ev, what) == [ev |-> ev, what |-> what]

\* Configurator.__init__, lines 29-48: the defaults, then the arguments.
ConfiguratorInit ==
    /\ pc = "configurator_init"
    /\ config' = Update(Defaults, initial_args)
    /\ pc' = "configure_from_file"
    /\ UNCHANGED <<cliVars, initial_args, config_file, fileCfg, environ,
                   apiVars, ioVars, now, exc>>

\* __configure lines 68-70 and __configure_from_file lines 101-102: without a
\* config file the step is skipped; open() fails when the file is not there.
OpenConfigFile ==
    /\ pc = "configure_from_file"
    /\ IF config_file = None
       THEN /\ pc' = "configure_from_env"
            /\ UNCHANGED <<handles, log, exc>>
       ELSE \E exists \in BOOLEAN :
                IF exists
                THEN /\ handles' = [handles EXCEPT !["config"] = "open"]
                     /\ log' = Append(log, Event("open", "config"))
                     /\ pc' = "read_config"
                     /\ UNCHANGED exc
                ELSE /\ Raise("FileNotFoundError", PyFormat(config_file))
                     /\ UNCHANGED <<handles, log>>
    /\ UNCHANGED <<cliVars, cfgVars, apiVars, fs, now>>

\* Lines 103-104: the whole file is read and parsed, and the object found is
\* merged into the configuration.  A parse error leaves the with block, which
\* closes the file on the way out.
ReadConfigFile ==
    /\ pc = "read_config"
    /\ \E contents \in FileContents :
        /\ fileCfg' = contents
        /\ IF contents.kind = "json"
           THEN /\ config' = Update(config, contents.obj)
                /\ log' = Append(log, Event("read", "config"))
                /\ pc' = "close_config"
                /\ UNCHANGED <<handles, exc>>
           ELSE /\ handles' = [handles EXCEPT !["config"] = "closed"]
                /\ log' = log \o <<Event("read", "config"),
                                   Event("close", "config")>>
                /\ Raise("JSONDecodeError", "Expecting value")
                /\ UNCHANGED config
    /\ UNCHANGED <<cliVars, initial_args, config_file, environ, apiVars, fs,
                   now>>

\* The end of the with block of line 102.
CloseConfigFile ==
    /\ pc = "close_config"
    /\ handles' = [handles EXCEPT !["config"] = "closed"]
    /\ log' = Append(log, Event("close", "config"))
    /\ pc' = "configure_from_env"
    /\ UNCHANGED <<cliVars, cfgVars, apiVars, fs, now, exc>>

\* The part of the environment __configure_from_env takes over: the value of
\* ITEM for each required item whose upper-cased name is set.
FromEnv(env) ==
    [k \in {i \in RequiredSet : Upper(i) \in DOMAIN env} |-> env[Upper(k)]]

\* Mutant: the environment is merged under what is already configured.
ConfigureFromEnvUnder ==
    /\ pc = "configure_from_env"
    /\ \E env \in Environments :
        /\ environ' = env
        /\ config' = Update(FromEnv(env), config)
    /\ pc' = "validate"
    /\ UNCHANGED <<cliVars, initial_args, config_file, fileCfg, apiVars,
                   ioVars, now, exc>>

\* __configure_from_env, lines 84-95.
ConfigureFromEnv ==
    /\ pc = "configure_from_env"
    /\ \E env \in Environments :
        /\ environ' = env
        /\ config' = Update(config, FromEnv(env))
    /\ pc' = "validate"
    /\ UNCHANGED <<cliVars, initial_args, config_file, fileCfg, apiVars,
                   ioVars, now, exc>>

\* Mutant: an item set to the empty string counts as missing.
MissingOrEmpty(cfg) ==
    {i \in 1..Len(required_items) :
        \/ required_items[i] \notin DOMAIN cfg
        \/ cfg[required_items[i]] = PyStr("")}

\* Mutant: the loop stops one item short.
MissingShort(cfg) ==
    {i \in 1..(Len(required_items) - 1) : required_items[i] \notin DOMAIN cfg}

\* The required items a configuration lacks, as positions of required_items.
Missing(cfg) ==
    {i \in 1..Len(required_items) : required_items[i] \notin DOMAIN cfg}

\* The first of them: where the loop of lines 79-81 raises.
FirstMissing(cfg) ==
    required_items[CHOOSE i \in Missing(cfg) : \A j \in Missing(cfg) : i <= j]

\* __configure lines 75-81: the arguments once more, then the validation.
Validate ==
    /\ pc = "validate"
    /\ LET merged == Update(config, initial_args)
       IN  /\ config' = merged
           /\ IF Missing(merged) = {}
              THEN /\ pc' = "construct_api"
                   /\ UNCHANGED exc
              ELSE Raise("KeyError",
                         "Missing configuration item: " \o FirstMissing(merged))
    /\ UNCHANGED <<cliVars, initial_args, config_file, fileCfg, environ,
                   apiVars, ioVars, now>>

(***************************************************************************)
(* AppleAPI.                                                               *)
(***************************************************************************)
\* AppleAPI.__init__, lines 118-134: the five settings are kept as given.
AppleAPI(kw) ==
    [api_base_url |-> kw["api_base_url"],
     jwt_expire_sec |-> kw["jwt_expire_sec"],
     issuer_id |-> kw["issuer_id"],
     key_id |-> kw["key_id"],
     privkey_path |-> kw["privkey_path"]]

\* The parameters of AppleAPI.__init__ (line 118).
ApiParams ==
    {"privkey_path", "key_id", "issuer_id", "jwt_expire_sec", "api_base_url"}

\* request_in_review_report, lines 251-255: the URL of the report.
ReportUrl(api_base_url, day) ==
    PyFormat(api_base_url) \o "/reports/in-review/v1?rptg_date=" \o PyFormat(day)

RequestInReviewReport ==
    /\ pc = "request_in_review_report"
    /\ report_url' = ReportUrl(apis[cur].api_base_url, rptg_day)
    /\ pc' = "send_signed"
    /\ UNCHANGED <<cliVars, cfgVars, apis, cur, rptg_day, lru, expiration,
                   private_key, token, response, issued, calls, ioVars, now,
                   exc>>

\* The entry of the lru_cache(1) store for object c, if it is the one kept.
Cached(store, c) == {e \in {store[i] : i \in 1..Len(store)} : e.key = c}

\* Mutant: the result is not stored.
CachePutNothing(store, c, value) == store

\* functools.lru_cache(maxsize=1) around a method: one store for the class,
\* keyed by self, holding the latest result only.
CachePut(store, c, value) == <<[key |-> c, value |-> value]>>

\* Line 202 through the wrapper of line 212: a hit returns the stored token and
\* does not enter the function.
GenerateJwtToken ==
    /\ pc = "send_signed"
    /\ IF Cached(lru, cur) # {}
       THEN LET hit == CHOOSE e \in Cached(lru, cur) : TRUE
            IN  /\ token' = hit.value
                /\ issued' = Append(issued, [client |-> cur, token |-> hit.value,
                                             at |-> now, hit |-> TRUE])
                /\ pc' = "send_http_request"
       ELSE /\ pc' = "jwt_expiration"
            /\ UNCHANGED <<token, issued>>
    /\ UNCHANGED <<cliVars, cfgVars, apis, cur, rptg_day, report_url, lru,
                   expiration, private_key, response, calls, ioVars, now, exc>>

\* int(time.time() + lifetime), with the clock in ticks: the whole seconds.
Expiration(clock, lifetime) == (clock + lifetime * TicksPerSec) \div TicksPerSec

\* Line 215.  float + str (or + None) is a TypeError.
JwtExpiration ==
    /\ pc = "jwt_expiration"
    /\ IF IsInt(apis[cur].jwt_expire_sec)
       THEN /\ expiration' = Expiration(now, apis[cur].jwt_expire_sec.n)
            /\ pc' = "open_key"
            /\ UNCHANGED exc
       ELSE /\ Raise("TypeError", "unsupported operand type(s) for +")
            /\ UNCHANGED expiration
    /\ UNCHANGED <<cliVars, cfgVars, apis, cur, rptg_day, report_url, lru,
                   private_key, token, response, issued, calls, ioVars, now>>

\* Line 232: open() fails when there is no file at privkey_path.
OpenKeyFile ==
    /\ pc = "open_key"
    /\ \E exists \in BOOLEAN :
        IF exists
        THEN /\ handles' = [handles EXCEPT !["privkey"] = "open"]
             /\ log' = Append(log, Event("open", "privkey"))
             /\ pc' = "read_key"
             /\ UNCHANGED exc
        ELSE /\ Raise("FileNotFoundError", PyFormat(apis[cur].privkey_path))
             /\ UNCHANGED <<handles, log>>
    /\ UNCHANGED <<cliVars, cfgVars, apiVars, fs, now>>

\* What the key file may hold: an EC P-256 key, or something else.
KeyFiles == {"p256", "malformed"}

\* Line 233.
ReadKeyFile ==
    /\ pc = "read_key"
    /\ \E k \in KeyFiles : private_key' = k
    /\ log' = Append(log, Event("read", "privkey"))
    /\ pc' = "close_key"
    /\ UNCHANGED <<cliVars, cfgVars, apis, cur, rptg_day, report_url, lru,
                   expiration, token, response, issued, calls, handles, fs,
                   now, exc>>

\* Mutant: the key file is read without a with block and never closed.
CloseKeyFileLeak ==
    /\ pc = "close_key"
    /\ pc' = "jwt_encode"
    /\ UNCHANGED <<cliVars, cfgVars, apiVars, ioVars, now, exc>>

\* The end of the with block of line 232.
CloseKeyFile ==
    /\ pc = "close_key"
    /\ handles' = [handles EXCEPT !["privkey"] = "closed"]
    /\ log' = Append(log, Event("close", "privkey"))
    /\ pc' = "jwt_encode"
    /\ UNCHANGED <<cliVars, cfgVars, apiVars, fs, now, exc>>

\* Lines 218-229: the header and the payload.
JwtHeaders(api) == [alg |-> "ES256", kid |-> api.key_id, typ |-> "JWT"]

JwtPayload(api, exp) ==
    [iss |-> api.issuer_id, exp |-> exp, aud |-> "appstoreconnect-v1"]

\* jwt.encode with ES256: the signature depends on the key and on the nonce
\* ECDSA draws.
Encode(payload, key, headers, nonce) ==
    [header |-> headers, payload |-> payload,
     sig |-> [key |-> key, nonce |-> nonce]]

\* Lines 236-238: the token is signed, returned and stored by the wrapper.
JwtEncode ==
    /\ pc = "jwt_encode"
    /\ IF private_key = "p256"
       THEN \E nonce \in 1..MaxNonce :
              LET tok == Encode(JwtPayload(apis[cur], expiration), private_key,
                                JwtHeaders(apis[cur]), nonce)
              IN  /\ token' = tok
                  /\ lru' = CachePut(lru, cur, tok)
                  /\ issued' = Append(issued, [client |-> cur, token |-> tok,
                                               at |-> now, hit |-> FALSE])
                  /\ pc' = "send_http_request"
                  /\ UNCHANGED exc
       ELSE /\ Raise("InvalidKeyError", "Could not parse the provided key")
            /\ UNCHANGED <<token, lru, issued>>
    /\ UNCHANGED <<cliVars, cfgVars, apis, cur, rptg_day, report_url,
                   expiration, private_key, response, calls, ioVars, now>>

\* What the API may answer.
Statuses == {200, 201, 404}
Bodies == {"a\tb\tc\n1\t2\t3\n", ""}
Responses == [status : Statuses, text : Bodies]

\* Lines 203-209 and __send_http_request, lines 137-185: the bearer token goes
\* into the headers and the GET is sent; the transport may fail.
SendHttpRequest ==
    /\ pc = "send_http_request"
    /\ log' = Append(log, Event("http", report_url))
    /\ \/ \E r \in Responses :
            /\ response' = r
            /\ pc' = "handle_response"
            /\ UNCHANGED exc
       \/ /\ Raise("ConnectionError", report_url)
          /\ UNCHANGED response
    /\ UNCHANGED <<cliVars, cfgVars, apis, cur, rptg_day, report_url, lru,
                   expiration, private_key, token, issued, calls, handles, fs,
                   now>>

(***************************************************************************)
(* OuptutDataLayer.                                                        *)
(***************************************************************************)
\* __write_file, lines 273-274: the file is created or replaced.
WriteFile(files, file_name, content) ==
    [n \in DOMAIN files \cup {file_name} |->
        IF n = file_name THEN content ELSE files[n]]

\* write_in_review_report, line 285.
ReportFileName(rprt_date) == "in-review-" \o PyFormat(rprt_date) \o ".tsv"

\* Mutant: --out, when given, names the file.
WriteInReviewReportOut(files, rprt_date, body) ==
    WriteFile(files,
              IF args.out # None THEN args.out.s ELSE ReportFileName(rprt_date),
              body)

\* write_in_review_report, lines 285-286.
WriteInReviewReport(files, rprt_date, body) ==
    WriteFile(files, ReportFileName(rprt_date), body)

(***************************************************************************)
(* The entry point.                                                        *)
(***************************************************************************)
Dates == {"2022-11-10"}

\* Lines 297-303: --config has a default, --out and --get-in-review are None
\* when not given.
ParseArgs ==
    /\ pc = "parse_args"
    /\ \E out \in {None, PyStr("out.tsv")},
          day \in {None} \cup {PyStr(d) : d \in Dates} :
        args' = [config |-> PyStr("config.json"), out |-> out,
                 get_in_review |-> day]
    /\ pc' = "check_operations"
    /\ UNCHANGED <<operation_ct, stdout, exit_status, cfgVars, apiVars,
                   ioVars, now, exc>>

\* Lines 305-315: the operations are counted and anything but one is refused.
CheckOperations ==
    /\ pc = "check_operations"
    /\ LET ct == IF args.get_in_review # PyFalse THEN 1 ELSE 0
       IN  /\ operation_ct' = ct
           /\ IF ct > 1 \/ ct < 1
              THEN /\ stdout' = stdout \o <<"Please specify exactly one operation.",
                                            "usage: apple_report_downloader.py">>
                   /\ exit_status' = 1
                   /\ pc' = "exited"
                   /\ UNCHANGED <<initial_args, config_file>>
              ELSE /\ initial_args' = EmptyDict
                   /\ config_file' = args.config
                   /\ pc' = "configurator_init"
                   /\ UNCHANGED <<stdout, exit_status>>
    /\ UNCHANGED <<args, config, fileCfg, environ, apiVars, ioVars, now, exc>>

\* Line 320: AppleAPI(**configurator.configuration).  Every key of the
\* configuration is passed as a keyword argument.
ConstructAPI ==
    /\ pc = "construct_api"
    /\ IF DOMAIN config = ApiParams
       THEN /\ apis' = [apis EXCEPT ![1] = AppleAPI(config)]
            /\ pc' = "get_in_review"
            /\ UNCHANGED exc
       ELSE /\ Raise("TypeError",
                     IF DOMAIN config \ ApiParams # {}
                     THEN "__init__() got an unexpected keyword argument '"
                          \o (CHOOSE k \in DOMAIN config \ ApiParams : TRUE) \o "'"
                     ELSE "__init__() missing required positional arguments")
            /\ UNCHANGED apis
    /\ UNCHANGED <<cliVars, cfgVars, cur, rptg_day, report_url, lru,
                   expiration, private_key, token, response, issued, calls,
                   ioVars, now>>

\* Lines 323-324.
GetInReview ==
    /\ pc = "get_in_review"
    /\ IF args.get_in_review # PyFalse
       THEN /\ cur' = 1
            /\ rptg_day' = args.get_in_review
            /\ pc' = "request_in_review_report"
       ELSE /\ pc' = "done"
            /\ UNCHANGED <<cur, rptg_day>>
    /\ UNCHANGED <<cliVars, cfgVars, apis, report_url, lru, expiration,
                   private_key, token, response, issued, calls, ioVars, now,
                   exc>>

\* Mutant: every 2xx status counts as success.
IsSuccess2xx(status) == status \in 200..299

\* Line 327.
IsSuccess(status) == status = 200

\* Lines 326-331: a 200 is written out, anything else is a RuntimeError.
HandleResponse ==
    /\ pc = "handle_response"
    /\ IF IsSuccess(response.status)
       THEN \E writable \in BOOLEAN :
              IF writable
              THEN /\ fs' = WriteInReviewReport(fs, args.get_in_review,
                                                response.text)
                   /\ pc' = "done"
                   /\ UNCHANGED exc
              ELSE /\ Raise("PermissionError",
                            ReportFileName(args.get_in_review))
                   /\ UNCHANGED fs
       ELSE /\ Raise("RuntimeError",
                     "API returned an HTTP " \o DecStr(response.status) \o ".")
            /\ UNCHANGED fs
    /\ UNCHANGED <<cliVars, cfgVars, apiVars, handles, log, now>>

NoFile == [kind |-> "unread"]

Clients == 1..2

InitCommon ==
    /\ args = None
    /\ operation_ct = 0
    /\ config = EmptyDict
    /\ fileCfg = NoFile
    /\ environ = EmptyDict
    /\ cur = 0
    /\ rptg_day = None
    /\ report_url = ""
    /\ lru = <<>>
    /\ expiration = 0
    /\ private_key = ""
    /\ token = None
    /\ response = None
    /\ handles = [f \in {"config", "privkey"} |-> "unopened"]
    /\ log = <<>>
    /\ stdout = <<>>
    /\ exit_status = NoExit
    /\ exc = NoExc
    /\ issued = <<>>
    /\ calls = 0

\* A caller constructs a Configurator: with or without a config file, with
\* any arguments.
InitConfig ==
    /\ InitCommon
    /\ pc = "configurator_init"
    /\ config_file \in {None, PyStr("config.json")}
    /\ initial_args \in Overrides
    /\ apis = [c \in Clients |-> None]
    /\ now = 0
    /\ fs = [n \in {} |-> ""]

NextConfig ==
    \/ ConfiguratorInit
    \/ OpenConfigFile
    \/ ReadConfigFile
    \/ CloseConfigFile
    \/ ConfigureFromEnv
    \/ Validate

SpecConfig == InitConfig /\ [][NextConfig]_vars

\* The working directory before the run: empty, or holding older files.
OldFiles ==
    {ReportFileName(d) : d \in {None} \cup {PyStr(x) : x \in Dates}}
    \cup {"out.tsv"}

\* The command line run.
Init ==
    /\ InitCommon
    /\ pc = "parse_args"
    /\ config_file = None
    /\ initial_args = EmptyDict
    /\ apis = [c \in Clients |-> None]
    /\ now \in 0..MaxTime
    /\ fs \in {[n \in {} |-> ""], [n \in OldFiles |-> "old"]}

Next ==
    \/ ParseArgs
    \/ CheckOperations
    \/ NextConfig
    \/ ConstructAPI
    \/ GetInReview
    \/ RequestInReviewReport
    \/ GenerateJwtToken
    \/ JwtExpiration
    \/ OpenKeyFile
    \/ ReadKeyFile
    \/ CloseKeyFile
    \/ JwtEncode
    \/ SendHttpRequest
    \/ HandleResponse

Spec == Init /\ [][Next]_vars

(***************************************************************************)
(* A process that uses the module as a library: it holds AppleAPI objects  *)
(* and calls request_in_review_report on them, time passing in between.   *)
(***************************************************************************)
Lifetimes == {PyInt(1), PyInt(2)}

ClientSettings(c, lifetime) ==
    [api_base_url |-> Defaults["api_base_url"],
     jwt_expire_sec |-> lifetime,
     issuer_id |-> PyStr("issuer-" \o DecStr(c)),
     key_id |-> PyStr("key-" \o DecStr(c)),
     privkey_path |-> PyStr("AuthKey_" \o DecStr(c) \o ".p8")]

InitToken ==
    /\ InitCommon
    /\ pc = "idle"
    /\ config_file = None
    /\ initial_args = EmptyDict
    /\ \E l \in [Clients -> Lifetimes] :
         apis = [c \in Clients |-> AppleAPI(ClientSettings(c, l[c]))]
    /\ now = 0
    /\ fs = [n \in {} |-> ""]

\* time.time() moves on.  The clock is read at line 215 only, so time that
\* passes during a call is time that passed before it.
Tick ==
    /\ pc = "idle"
    /\ now < MaxTime
    /\ now' = now + 1
    /\ UNCHANGED <<pc, cliVars, cfgVars, apiVars, ioVars, exc>>

\* A call of request_in_review_report (line 241) on one of the objects.
DriverCall ==
    /\ pc = "idle"
    /\ calls < MaxCalls
    /\ \E c \in Clients, d \in Dates :
        /\ cur' = c
        /\ rptg_day' = PyStr(d)
    /\ calls' = calls + 1
    /\ pc' = "request_in_review_report"
    /\ UNCHANGED <<cliVars, cfgVars, apis, report_url, lru, expiration,
                   private_key, token, response, issued, ioVars, now, exc>>

\* The call returns (line 257) or raises: its locals are gone, and the caller
\* goes on either way.
DriverReturn ==
    /\ pc \in {"handle_response", "raised"}
    /\ pc' = "idle"
    /\ exc' = NoExc
    /\ response' = None
    /\ token' = None
    /\ expiration' = 0
    /\ private_key' = ""
    /\ report_url' = ""
    /\ UNCHANGED <<cliVars, cfgVars, apis, cur, rptg_day, lru, issued, calls,
                   ioVars, now>>

NextToken ==
    \/ Tick
    \/ DriverCall
    \/ DriverReturn
    \/ RequestInReviewReport
    \/ GenerateJwtToken
    \/ JwtExpiration
    \/ OpenKeyFile
    \/ ReadKeyFile
    \/ CloseKeyFile
    \/ JwtEncode
    \/ SendHttpRequest

SpecToken == InitToken /\ [][NextToken]_vars

(***************************************************************************)
(* Properties of the Configurator (SpecConfig).                            *)
(***************************************************************************)
\* The validation of lines 78-81 has run: it passed, or it raised.
Validated ==
    \/ pc = "construct_api"
    \/ (pc = "raised" /\ exc.type = "KeyError")

\* The value the sources give an item, by precedence, read off the inputs
\* themselves: argument, environment variable, file, default; Unset if none.
Resolved(k) ==
    IF k \in DOMAIN initial_args THEN initial_args[k]
    ELSE IF Upper(k) \in DOMAIN environ THEN environ[Upper(k)]
    ELSE IF fileCfg.kind = "json" /\ k \in DOMAIN fileCfg.obj
         THEN fileCfg.obj[k]
    ELSE IF k \in DOMAIN Defaults THEN Defaults[k]
    ELSE Unset

\* C1: once the sources are merged, each of the five settings holds the
\* explicit override if one is given, else the environment variable of the
\* upper-cased name if set, else the file value if present, else the built-in
\* default (and is absent if no source gives it).
C1_Precedence ==
    Validated =>
        \A k \in RequiredSet :
            IF Resolved(k) = Unset
            THEN k \notin DOMAIN config
            ELSE k \in DOMAIN config /\ config[k] = Resolved(k)

\* C1 witness: a Configurator whose issuer_id comes from the override over an
\* environment variable and a file value, key_id from the environment over the
\* file, privkey_path from the file and api_base_url from the default.
C1_Witness ==
    /\ pc = "construct_api"
    /\ fileCfg.kind = "json"
    /\ {"issuer_id", "key_id", "privkey_path"} \subseteq DOMAIN fileCfg.obj
    /\ "api_base_url" \notin DOMAIN fileCfg.obj
    /\ {"ISSUER_ID", "KEY_ID"} \subseteq DOMAIN environ
    /\ "PRIVKEY_PATH" \notin DOMAIN environ
    /\ "API_BASE_URL" \notin DOMAIN environ
    /\ DOMAIN initial_args = {"issuer_id"}
    /\ config["issuer_id"] = PyStr("arg:issuer_id")
    /\ config["key_id"] = PyStr("env:key_id")
    /\ config["privkey_path"] = PyStr("file:privkey_path")
    /\ config["api_base_url"] = PyStr("https://musicanalytics.apple.com")

\* C5: if after merging any of the five required keys has no source, the
\* construction fails with a KeyError whose message names a key that is
\* missing; if every key has a source it does not fail.
C5_MissingKey ==
    Validated =>
        LET absent == {k \in RequiredSet : Resolved(k) = Unset}
        IN  IF absent # {}
            THEN /\ pc = "raised"
                 /\ exc.type = "KeyError"
                 /\ \E k \in absent :
                        exc.msg = "Missing configuration item: " \o k
            ELSE /\ pc = "construct_api"
                 /\ exc = NoExc

\* C5 witness: key_id and privkey_path are both missing, issuer_id is not, and
\* the error names key_id.
C5_Witness ==
    /\ pc = "raised"
    /\ exc.type = "KeyError"
    /\ exc.msg = "Missing configuration item: key_id"
    /\ "issuer_id" \in DOMAIN config
    /\ "privkey_path" \notin DOMAIN config

\* C9 as stated: whenever the construction succeeds, each of the five keys is
\* present with a non-empty value.
C9_NonEmpty ==
    pc = "construct_api" =>
        \A k \in RequiredSet : k \in DOMAIN config /\ config[k] # PyStr("")

\* C9 amended: whenever the construction succeeds each of the five keys is
\* present, and presence is all that is asked: a resolution in which every key
\* has a source is accepted, empty values included.
C9_PresentOnly ==
    /\ pc = "construct_api" => RequiredSet \subseteq DOMAIN config
    /\ (Validated /\ \A k \in RequiredSet : Resolved(k) # Unset)
            => pc = "construct_api"

\* C9 witness: a construction that succeeded with an environment variable set
\* to the empty string as the value of its item.
C9_Witness ==
    /\ pc = "construct_api"
    /\ \E k \in RequiredSet :
        /\ Upper(k) \in DOMAIN environ
        /\ environ[Upper(k)] = PyStr("")
        /\ config[k] = PyStr("")

(***************************************************************************)
(* Properties of the command line run (Spec).                              *)
(***************************************************************************)
HttpSent == \E i \in 1..Len(log) : log[i].ev = "http"

\* The working directory is as the run found it.
FsUntouched ==
    \/ fs = [n \in {} |-> ""]
    \/ fs = [n \in OldFiles |-> "old"]

Answered == response # None /\ pc # "handle_response"

\* C2 as stated: a run without --get-in-review prints the usage message, exits
\* with status 1 and never sends an HTTP request.
C2_UsageExit ==
    (args # None /\ args.get_in_review = None /\ pc # "check_operations") =>
        /\ pc = "exited"
        /\ exit_status = 1
        /\ stdout # <<>>
        /\ ~HttpSent

HttpErrorMessage(status) ==
    CASE status = 201 -> "API returned an HTTP 201."
      [] status = 404 -> "API returned an HTTP 404."
      [] OTHER -> "API returned an HTTP ?."

\* C4: for every status other than 200 (other 2xx codes included) the run ends
\* with a RuntimeError whose message contains the status, and no output file
\* is created or modified.
C4_NonOkFatal ==
    (Answered /\ response.status # 200) =>
        /\ pc = "raised"
        /\ exc.type = "RuntimeError"
        /\ exc.msg = HttpErrorMessage(response.status)
        /\ FsUntouched

\* C4 witness: the API answered 201 and the run ended with the error, the
\* older files as they were.
C4_Witness ==
    /\ pc = "raised"
    /\ response # None
    /\ response.status = 201
    /\ exc = [type |-> "RuntimeError", msg |-> "API returned an HTTP 201."]
    /\ fs = [n \in OldFiles |-> "old"]

\* C6 as stated: when the five required settings are resolved and the config
\* file also holds the key out, the run still constructs the API client.
C6_OutKeyAccepted ==
    (/\ fileCfg.kind = "json"
     /\ "out" \in DOMAIN fileCfg.obj
     /\ RequiredSet \subseteq DOMAIN config
     /\ pc \in {"raised", "done"})
        => apis[1] # None

\* The seconds a configured lifetime stands for.
SecondsOf(v) ==
    CASE IsInt(v) -> v.n
      [] v = PyStr("2") -> 2
      [] OTHER -> 0

\* C8 as stated: for every settings mapping the resolver accepts, whichever
\* source the lifetime comes from, the issuer issues a token with header
\* alg=ES256, kid=key_id, typ=JWT and payload iss=issuer_id,
\* aud=appstoreconnect-v1, exp = T + jwt_expire_sec; it does not fail on the
\* settings.
C8_TokenFields ==
    /\ \A i \in {n \in 1..Len(issued) : ~issued[n].hit} :
        LET api == apis[issued[i].client]
            tok == issued[i].token
        IN  /\ tok.header = [alg |-> "ES256", kid |-> api.key_id, typ |-> "JWT"]
            /\ tok.payload.iss = api.issuer_id
            /\ tok.payload.aud = "appstoreconnect-v1"
            /\ LET due == issued[i].at
                              + SecondsOf(api.jwt_expire_sec) * TicksPerSec
               IN  /\ tok.payload.exp * TicksPerSec <= due
                   /\ due < (tok.payload.exp + 1) * TicksPerSec
    /\ (apis[1] # None /\ pc = "raised") => exc.type # "TypeError"

\* C10: the HTTP request is sent only after the config file and the key file
\* have each been opened, read and closed, in that order; and a run that ends
\* in a failure of the config file, the validation, the construction of the
\* client, the key file or the signing has sent no request and written no
\* file.
Before(ev1, ev2, what, i) ==
    \E a, b \in 1..(i - 1) :
        a < b /\ log[a] = Event(ev1, what) /\ log[b] = Event(ev2, what)

C10_FilesBeforeNetwork ==
    /\ \A i \in 1..Len(log) :
        log[i].ev = "http" =>
            /\ \A f \in {"config", "privkey"} :
                /\ Before("open", "read", f, i)
                /\ Before("read", "close", f, i)
            /\ handles = [f \in {"config", "privkey"} |-> "closed"]
    /\ (pc = "raised" /\ exc.type \in {"FileNotFoundError", "JSONDecodeError",
                                        "KeyError", "TypeError",
                                        "InvalidKeyError"})
            => ~HttpSent /\ FsUntouched

\* C10 witness: a run that sent its request and ended well.
C10_Witness ==
    /\ pc = "done"
    /\ HttpSent
    /\ Len(log) = 7

(***************************************************************************)
(* Properties of the token cache (SpecToken).                              *)
(***************************************************************************)
\* C7 as stated: once the issuer of a client has produced a token, every
\* later call to the issuer of that client returns the identical token and
\* does not run the function again.
C7_SameToken ==
    \A i, j \in 1..Len(issued) :
        (i < j /\ issued[i].client = issued[j].client) =>
            /\ issued[j].token = issued[i].token
            /\ issued[j].hit

\* C7 amended: the same, as long as no other client's issuer has produced a
\* token in between.
C7_SameTokenUntilEvicted ==
    \A i, j \in 1..Len(issued) :
        (/\ i < j
         /\ \A k \in i..j : issued[k].client = issued[i].client) =>
            /\ issued[j].token = issued[i].token
            /\ issued[j].hit

\* C7 witness: a client was handed its token again, from the cache, more than
\* the token's lifetime after it was issued.
C7_Witness ==
    \E i \in 1..(Len(issued) - 1) :
        /\ issued[i].client = issued[i + 1].client
        /\ issued[i + 1].hit
        /\ issued[i + 1].token = issued[i].token
        /\ issued[i + 1].at - issued[i].at
             > apis[issued[i].client].jwt_expire_sec.n * TicksPerSec
        /\ issued[i + 1].at > issued[i].token.payload.exp * TicksPerSec

====
